---- MODULE Spec2Model ----
(***************************************************************************)
(* Shallow-water models of beta_plane/linear.py and beta_plane/nonlinear.py *)
(* as one state machine: a model object is constructed, forcings and       *)
(* tracers are registered, and step() is called.                           *)
(*                                                                         *)
(* Numbers are exact rationals <<numerator, denominator>> (denominator > 0,*)
(* lowest terms).  Arrays are records [w, h, d]: shape (w, h) and the data *)
(* d[i][j] with numpy's 0-based indices.                                   *)
(***************************************************************************)
EXTENDS Integers, Sequences, FiniteSets, TLC

(* ------------------------------------------------------------------ *)
(* Bounds of the model                                                  *)
(* ------------------------------------------------------------------ *)
MaxSteps == 2
MaxRegistrations == 2

(* ------------------------------------------------------------------ *)
(* Exact rational arithmetic                                            *)
(* ------------------------------------------------------------------ *)
Abs(n) == IF n < 0 THEN -n ELSE n

RECURSIVE GCD(_, _)
GCD(a, b) == IF b = 0 THEN a ELSE GCD(b, a % b)

Norm(n, d) == IF n = 0 THEN <<0, 1>>
              ELSE IF d = 1 THEN <<n, 1>>
              ELSE LET g == GCD(Abs(n), d) IN <<n \div g, d \div g>>

Rat(n) == <<n, 1>>
Zero == <<0, 1>>
One == <<1, 1>>
Half == <<1, 2>>

RNeg(x) == <<-x[1], x[2]>>

RAdd(x, y) == IF x[1] = 0 THEN y
              ELSE IF y[1] = 0 THEN x
              ELSE IF x[2] = y[2] THEN Norm(x[1] + y[1], x[2])
              ELSE LET g == GCD(x[2], y[2])
                   IN  Norm(x[1] * (y[2] \div g) + y[1] * (x[2] \div g),
                            (x[2] \div g) * y[2])

RSub(x, y) == RAdd(x, RNeg(y))

RMul(x, y) == IF x[1] = 0 \/ y[1] = 0 THEN <<0, 1>>
              ELSE IF x[2] = 1 /\ y[2] = 1 THEN <<x[1] * y[1], 1>>
              ELSE LET g1 == GCD(Abs(x[1]), y[2])
                       g2 == GCD(Abs(y[1]), x[2])
                   IN  <<(x[1] \div g1) * (y[1] \div g2),
                         (x[2] \div g2) * (y[2] \div g1)>>

\* x / y for y # 0
RDiv(x, y) == IF y[1] > 0 THEN RMul(x, <<y[2], y[1]>>)
              ELSE RMul(x, <<-y[2], -y[1]>>)

RLess(x, y) == x[1] * y[2] < y[1] * x[2]

(* ------------------------------------------------------------------ *)
(* numpy arrays of shape (w, h)                                         *)
(* ------------------------------------------------------------------ *)
Arr(w, h, d) == [w |-> w, h |-> h, d |-> d]

\* np.zeros((w, h))
Zeros(w, h) == Arr(w, h, [i \in 0..(w - 1) |-> [j \in 0..(h - 1) |-> Zero]])

\* np.zeros_like(a)
ZerosLike(a) == Zeros(a.w, a.h)

\* a[i0:i1, j0:j1] for 0 <= i0 <= i1 <= w, 0 <= j0 <= j1 <= h
Slice(a, i0, i1, j0, j1) ==
    Arr(i1 - i0, j1 - j0,
        [i \in 0..(i1 - i0 - 1) |-> [j \in 0..(j1 - j0 - 1) |-> a.d[i + i0][j + j0]]])

\* a[1:-1, :]
CropX(a) == Slice(a, 1, a.w - 1, 0, a.h)
\* a[:, 1:-1]
CropY(a) == Slice(a, 0, a.w, 1, a.h - 1)
\* a[1:-1, 1:-1]
Interior(a) == Slice(a, 1, a.w - 1, 1, a.h - 1)

\* elementwise a + b, a - b, a * b, -a, c * a, a ** 2 (equal shapes)
EAdd(a, b) == Arr(a.w, a.h,
    [i \in 0..(a.w - 1) |-> [j \in 0..(a.h - 1) |-> RAdd(a.d[i][j], b.d[i][j])]])
ESub(a, b) == Arr(a.w, a.h,
    [i \in 0..(a.w - 1) |-> [j \in 0..(a.h - 1) |-> RSub(a.d[i][j], b.d[i][j])]])
EMul(a, b) == Arr(a.w, a.h,
    [i \in 0..(a.w - 1) |-> [j \in 0..(a.h - 1) |-> RMul(a.d[i][j], b.d[i][j])]])
ENeg(a) == Arr(a.w, a.h,
    [i \in 0..(a.w - 1) |-> [j \in 0..(a.h - 1) |-> RNeg(a.d[i][j])]])
EScale(c, a) == Arr(a.w, a.h,
    [i \in 0..(a.w - 1) |-> [j \in 0..(a.h - 1) |-> RMul(c, a.d[i][j])]])
ESquare(a) == EMul(a, a)

\* a with a[1:-1, 1:-1] = b
SetInterior(a, b) == Arr(a.w, a.h,
    [i \in 0..(a.w - 1) |-> [j \in 0..(a.h - 1) |->
        IF i >= 1 /\ i <= a.w - 2 /\ j >= 1 /\ j <= a.h - 2
        THEN b.d[i - 1][j - 1] ELSE a.d[i][j]]])

\* the array with every cell evaluated (a value, not a computation)
Eval(a) == Arr(a.w, a.h, [i \in 0..(a.w - 1) |-> [j \in 0..(a.h - 1) |-> a.d[i][j]]])

IsZeroArr(a) == \A i \in 0..(a.w - 1) : \A j \in 0..(a.h - 1) : a.d[i][j] = Zero

(* ------------------------------------------------------------------ *)
(* The grid (module arakawac): finite differences and averages          *)
(* ------------------------------------------------------------------ *)
\* (psi[1:, :] - psi[:-1, :]) / dx
diffx(self, psi) == Arr(psi.w - 1, psi.h,
    [i \in 0..(psi.w - 2) |-> [j \in 0..(psi.h - 1) |->
        RDiv(RSub(psi.d[i + 1][j], psi.d[i][j]), self.dx)]])

\* (psi[:, 1:] - psi[:, :-1]) / dy
diffy(self, psi) == Arr(psi.w, psi.h - 1,
    [i \in 0..(psi.w - 1) |-> [j \in 0..(psi.h - 2) |->
        RDiv(RSub(psi.d[i][j + 1], psi.d[i][j]), self.dy)]])

\* (psi[:-2, :] - 2 psi[1:-1, :] + psi[2:, :]) / dx**2
diff2x(self, psi) == Arr(psi.w - 2, psi.h,
    [i \in 0..(psi.w - 3) |-> [j \in 0..(psi.h - 1) |->
        RDiv(RAdd(RSub(psi.d[i][j], RMul(Rat(2), psi.d[i + 1][j])), psi.d[i + 2][j]),
             RMul(self.dx, self.dx))]])

\* (psi[:, :-2] - 2 psi[:, 1:-1] + psi[:, 2:]) / dy**2
diff2y(self, psi) == Arr(psi.w, psi.h - 2,
    [i \in 0..(psi.w - 1) |-> [j \in 0..(psi.h - 3) |->
        RDiv(RAdd(RSub(psi.d[i][j], RMul(Rat(2), psi.d[i][j + 1])), psi.d[i][j + 2]),
             RMul(self.dy, self.dy))]])

\* 0.5 * (psi[:-1, :] + psi[1:, :])
x_average(psi) == Arr(psi.w - 1, psi.h,
    [i \in 0..(psi.w - 2) |-> [j \in 0..(psi.h - 1) |->
        RMul(Half, RAdd(psi.d[i][j], psi.d[i + 1][j]))]])

\* 0.5 * (psi[:, :-1] + psi[:, 1:])
y_average(psi) == Arr(psi.w, psi.h - 1,
    [i \in 0..(psi.w - 1) |-> [j \in 0..(psi.h - 2) |->
        RMul(Half, RAdd(psi.d[i][j], psi.d[i][j + 1]))]])

\* diff2x(psi)[:, 1:-1] + diff2y(psi)[1:-1, :]
del2(self, psi) == EAdd(CropY(diff2x(self, psi)), CropX(diff2y(self, psi)))

\* the unpadded views u, v, phi of the padded fields
u(self) == Interior(self._u)
v(self) == Interior(self._v)
phi(self) == Interior(self._phi)

\* the state [u, v, phi]
state(self) == [u |-> u(self), v |-> v(self), phi |-> phi(self)]

\* diffx(u) + diffy(v)
divergence(self) == EAdd(diffx(self, u(self)), diffy(self, v(self)))

\* u at the v points (nx, ny+1) and v at the u points (nx+1, ny)
u_at_v(self) == CropX(y_average(x_average(self._u)))
v_at_u(self) == CropY(x_average(y_average(self._v)))

\* y coordinate of row j of the u points and of the v points
uy(self, j) == RAdd(RAdd(RNeg(RMul(Half, self.Ly)), RMul(Half, self.dy)), RMul(Rat(j), self.dy))
vy(self, j) == RAdd(RNeg(RMul(Half, self.Ly)), RMul(Rat(j), self.dy))

\* corners become the mean of their two edge neighbours
_fix_boundary_corners(field) ==
    LET W == field.w - 1
        Ht == field.h - 1
        f == field.d
    IN  Arr(field.w, field.h, [i \in 0..W |-> [j \in 0..Ht |->
            IF i = 0 /\ j = 0 THEN RMul(Half, RAdd(f[1][0], f[0][1]))
            ELSE IF i = W /\ j = 0 THEN RMul(Half, RAdd(f[W - 1][0], f[W][1]))
            ELSE IF i = 0 /\ j = Ht THEN RMul(Half, RAdd(f[1][Ht], f[0][Ht - 1]))
            ELSE IF i = W /\ j = Ht THEN RMul(Half, RAdd(f[W][Ht - 1], f[W - 1][Ht]))
            ELSE f[i][j]]])

\* triples [u, v, phi] of arrays: sum, difference, scaling
TAdd(a, b) == [u |-> EAdd(a.u, b.u), v |-> EAdd(a.v, b.v), phi |-> EAdd(a.phi, b.phi)]
TScale(c, a) == [u |-> EScale(c, a.u), v |-> EScale(c, a.v), phi |-> EScale(c, a.phi)]
TEval(a) == [u |-> Eval(a.u), v |-> Eval(a.v), phi |-> Eval(a.phi)]
TZeros(self) == [u |-> Zeros(self.nx + 1, self.ny), v |-> Zeros(self.nx, self.ny + 1),
                 phi |-> Zeros(self.nx, self.ny)]
IsZeroState(self) == IsZeroArr(self._u) /\ IsZeroArr(self._v) /\ IsZeroArr(self._phi)

(* ------------------------------------------------------------------ *)
(* Sponge damping (linear.py 71-77, nonlinear.py 121-127)               *)
(* ------------------------------------------------------------------ *)
\* np.exp(-np.linspace(0, 5, sponge_ny)): empty for sponge_ny = 0 and [1.0]
\* for sponge_ny = 1 (ny in 7..13); longer profiles are not rational and
\* the constructor inputs of this model stay below ny = 14
sponge(sponge_ny) == [k \in 0..(sponge_ny - 1) |-> One]

\* var_sponge[:, -sponge_ny:] = ... with sponge_ny = 0 assigns the empty
\* profile to all of var_sponge, which numpy refuses (ValueError)
DampingFaults(self, var) == self.sponge_ny = 0 /\ var.h # 0

\* var_sponge: the profile in the first and (reversed) in the last
\* sponge_ny columns, zero elsewhere
var_sponge(self, var) == Arr(var.w, var.h,
    [i \in 0..(var.w - 1) |-> [j \in 0..(var.h - 1) |->
        IF j >= var.h - self.sponge_ny THEN self.sponge[var.h - 1 - j]
        ELSE IF j < self.sponge_ny THEN self.sponge[j]
        ELSE Zero]])

\* a sponge that relaxes toward one instead of zero
damping_toward_one(self, var) ==
    EMul(EScale(self.r, var_sponge(self, var)),
         ESub(var, Arr(var.w, var.h, [i \in 0..(var.w - 1) |-> [j \in 0..(var.h - 1) |-> One]])))

\* r * var_sponge * var
damping(self, var) == EMul(EScale(self.r, var_sponge(self, var)), var)

(* ------------------------------------------------------------------ *)
(* Dynamics                                                             *)
(* ------------------------------------------------------------------ *)
\* f0 + beta * uy broadcast over the u points, f0 + beta * vy over the v points
CoriolisAtU(self) == Arr(self.nx + 1, self.ny,
    [i \in 0..self.nx |-> [j \in 0..(self.ny - 1) |->
        RAdd(self.f0, RMul(self.beta, uy(self, j)))]])
CoriolisAtV(self) == Arr(self.nx, self.ny + 1,
    [i \in 0..(self.nx - 1) |-> [j \in 0..self.ny |->
        RAdd(self.f0, RMul(self.beta, vy(self, j)))]])

\* the height equation of the nonlinear dynamics: flux form plus diffusion
\* (nonlinear.py keeps one nu: its objects hold nu_phi = nu)
phi_rhs(self) ==
    LET phi_at_u == CropY(x_average(self._phi))
        phi_at_v == CropX(y_average(self._phi))
    IN  EAdd(ESub(ENeg(diffx(self, EMul(phi_at_u, u(self)))),
                  diffy(self, EMul(phi_at_v, v(self)))),
             EScale(self.nu_phi, del2(self, self._phi)))

\* the u equation of the nonlinear dynamics
u_rhs(self) ==
    LET ubarx == CropY(x_average(self._u))
        ubary == CropX(y_average(self._u))
        dhdx == CropY(diffx(self, self._phi))
        ududx == EScale(Half, diffx(self, ESquare(ubarx)))
        vdudy == EMul(v_at_u(self), diffy(self, ubary))
        r1 == EAdd(ENeg(dhdx), EMul(CoriolisAtU(self), v_at_u(self)))
        r2 == EAdd(r1, EScale(self.nu, del2(self, self._u)))
        r3 == EAdd(r2, ESub(ENeg(ududx), vdudy))
    IN  ESub(r3, damping(self, u(self)))

\* the v equation of the nonlinear dynamics
v_rhs(self) ==
    LET vbary == CropX(y_average(self._v))
        vbarx == CropY(x_average(self._v))
        dhdy == CropX(diffy(self, self._phi))
        udvdx == EMul(u_at_v(self), diffx(self, vbarx))
        vdvdy == EScale(Half, diffy(self, ESquare(vbary)))
        r1 == ESub(ENeg(dhdy), EMul(CoriolisAtV(self), u_at_v(self)))
        r2 == EAdd(r1, EScale(self.nu, del2(self, self._v)))
        r3 == EAdd(r2, ESub(ENeg(udvdx), vdvdy))
    IN  ESub(r3, damping(self, v(self)))

\* ShallowWater._dynamics_terms: the nonlinear dynamics
ShallowWater_dynamics_terms(self) ==
    [u |-> u_rhs(self), v |-> v_rhs(self), phi |-> phi_rhs(self)]

\* LinearShallowWater._dynamics_terms: the linear dynamics
LinearShallowWater_dynamics_terms(self) ==
    LET h_rhs == ESub(EAdd(EScale(RNeg(self.H), divergence(self)),
                           EScale(self.nu_phi, del2(self, self._phi))),
                      damping(self, phi(self)))
        dhdx == CropY(diffx(self, self._phi))
        lu_rhs == ESub(EAdd(ESub(EMul(CoriolisAtU(self), v_at_u(self)),
                                 EScale(self.g, dhdx)),
                            EScale(self.nu, del2(self, self._u))),
                       damping(self, u(self)))
        dhdy == CropX(diffy(self, self._phi))
        lv_rhs == ESub(EAdd(ESub(ENeg(EMul(CoriolisAtV(self), u_at_v(self))),
                                 EScale(self.g, dhdy)),
                            EScale(self.nu, del2(self, self._v))),
                       damping(self, v(self)))
    IN  [u |-> lu_rhs, v |-> lv_rhs, phi |-> h_rhs]

\* the dynamics of the object's class; they call damping, which may fault
_dynamics_terms(self) ==
    IF self.dynamics = "linear" THEN LinearShallowWater_dynamics_terms(self)
    ELSE ShallowWater_dynamics_terms(self)
DynamicsFault(self) == DampingFaults(self, u(self))

\* ShallowWater.rhs, the hook a subclass may override: zeros
ShallowWater_rhs(self) == TZeros(self)

(* ------------------------------------------------------------------ *)
(* Boundary conditions (nonlinear.py 200-263)                           *)
(* ------------------------------------------------------------------ *)
\* numpy's index k of an axis of length n (negative: from the end)
Ix(k, n) == IF k < 0 THEN n + k ELSE k

\* field[i, :] = field[k, :]
SetX(field, i, k) == Arr(field.w, field.h,
    [x \in 0..(field.w - 1) |-> [y \in 0..(field.h - 1) |->
        IF x = Ix(i, field.w) THEN field.d[Ix(k, field.w)][y] ELSE field.d[x][y]]])

\* field[i, :] = 0
SetXZero(field, i) == Arr(field.w, field.h,
    [x \in 0..(field.w - 1) |-> [y \in 0..(field.h - 1) |->
        IF x = Ix(i, field.w) THEN Zero ELSE field.d[x][y]]])

\* field[:, j] = field[:, k]
SetY(field, j, k) == Arr(field.w, field.h,
    [x \in 0..(field.w - 1) |-> [y \in 0..(field.h - 1) |->
        IF y = Ix(j, field.h) THEN field.d[x][Ix(k, field.h)] ELSE field.d[x][y]]])

\* top and bottom boundaries of one field, then its corners
TopBottom(field) == _fix_boundary_corners(SetY(SetY(field, 0, 1), -1, -2))

\* PeriodicShallowWater._apply_boundary_conditions
Periodic_apply_boundary_conditions(self) ==
    LET u1 == SetX(SetX(SetX(self._u, 0, -3), 1, -2), -1, 2)
        v1 == SetX(SetX(self._v, 0, -2), -1, 1)
        phi1 == SetX(SetX(self._phi, 0, -2), -1, 1)
    IN  [self EXCEPT !._u = TopBottom(u1), !._v = TopBottom(v1), !._phi = TopBottom(phi1)]

\* a periodic variant that mirrors a tracer field as the walled one does
Periodic_mirror_boundary_conditions_to(field) ==
    _fix_boundary_corners(SetY(SetY(SetX(SetX(field, 0, 1), -1, -2), 0, 1), -1, -2))

\* PeriodicShallowWater._apply_boundary_conditions_to
Periodic_apply_boundary_conditions_to(field) ==
    _fix_boundary_corners(SetY(SetY(SetX(SetX(field, 0, -2), -1, 1), 0, 1), -1, -2))

\* a walled variant that zeroes only the two outermost columns of u
Walled_outer_columns_only(self) ==
    LET u1 == SetXZero(SetXZero(self._u, 0), -1)
        v1 == SetX(SetX(self._v, 0, 1), -1, -2)
        phi1 == SetX(SetX(self._phi, 0, 1), -1, -2)
    IN  [self EXCEPT !._u = TopBottom(u1), !._v = TopBottom(v1), !._phi = TopBottom(phi1)]

\* WalledShallowWater._apply_boundary_conditions
Walled_apply_boundary_conditions(self) ==
    LET u1 == SetXZero(SetXZero(SetXZero(SetXZero(self._u, 0), 1), -1), -2)
        v1 == SetX(SetX(self._v, 0, 1), -1, -2)
        phi1 == SetX(SetX(self._phi, 0, 1), -1, -2)
    IN  [self EXCEPT !._u = TopBottom(u1), !._v = TopBottom(v1), !._phi = TopBottom(phi1)]

\* WalledShallowWater._apply_boundary_conditions_to
Walled_apply_boundary_conditions_to(field) ==
    _fix_boundary_corners(SetY(SetY(SetX(SetX(field, 0, 1), -1, -2), 0, 1), -1, -2))

\* the boundary mixins of linear.py's classes (module arakawac): the state
\* operation of each variant, and the zero-gradient rule for a tracer field
Mixin_apply_boundary_conditions(self) ==
    IF self.bc = "periodic" THEN Periodic_apply_boundary_conditions(self)
    ELSE Walled_apply_boundary_conditions(self)
Mixin_apply_boundary_conditions_to(self, field) ==
    _fix_boundary_corners(SetY(SetY(SetX(SetX(field, 0, 1), -1, -2), 0, 1), -1, -2))

\* the operations of the object's class
_apply_boundary_conditions(self) ==
    IF self.file = "linear" THEN Mixin_apply_boundary_conditions(self)
    ELSE IF self.bc = "periodic" THEN Periodic_apply_boundary_conditions(self)
    ELSE Walled_apply_boundary_conditions(self)
_apply_boundary_conditions_to(self, field) ==
    IF self.file = "linear" THEN Mixin_apply_boundary_conditions_to(self, field)
    ELSE IF self.bc = "periodic" THEN Periodic_apply_boundary_conditions_to(field)
    ELSE Walled_apply_boundary_conditions_to(field)

(* ------------------------------------------------------------------ *)
(* The callables a caller hands to the model                            *)
(* ------------------------------------------------------------------ *)
\* forcing functions fn(model) -> state delta
\*   "wind":  a constant push on u      "relax": -model.state
\*   "fault": raises (or returns a delta of the wrong shape)
ForcingKinds == {"wind", "relax", "fault"}
ForcingFaults(fn, self) == fn = "fault"
ForcingValue(fn, self) ==
    IF fn = "wind"
    THEN [TZeros(self) EXCEPT !.u = Arr(self.nx + 1, self.ny,
             [i \in 0..self.nx |-> [j \in 0..(self.ny - 1) |-> One]])]
    ELSE TScale(Rat(-1), state(self))

\* the rhs argument of add_tracer: the constants "0" and "1", or a callable
\*   "phi": returns model.phi          "tracer_a": returns model.tracer('a')
\*   "fault": raises
RhsArgs == {"0", "1", "phi", "tracer_a", "fault"}
callable(rhs) == rhs \in {"phi", "tracer_a", "fault"}

(* ------------------------------------------------------------------ *)
(* Tracers                                                              *)
(* ------------------------------------------------------------------ *)
HasTracer(self, name) == \E k \in 1..Len(self._tracers) : self._tracers[k].name = name
TracerIndex(self, name) == CHOOSE k \in 1..Len(self._tracers) : self._tracers[k].name = name

\* tracer(name): the interior of the registered field
tracer(self, name) == Interior(self._tracers[TracerIndex(self, name)].state)

\* NonLinShallowWater.tracer_conservation
tracer_conservation(self, name) ==
    LET q == self._tracers[TracerIndex(self, name)].state
        q_at_u == CropY(x_average(q))
        q_at_v == CropX(y_average(q))
    IN  ESub(diffx(self, EMul(q_at_u, u(self))), diffy(self, EMul(q_at_v, v(self))))

\* ShallowWater._tracer_dynamics_terms
_tracer_dynamics_terms(self, name) ==
    LET q == self._tracers[TracerIndex(self, name)].state
        q_at_u == CropY(x_average(q))
        q_at_v == CropX(y_average(q))
    IN  EAdd(diffx(self, EMul(q_at_u, u(self))), diffy(self, EMul(q_at_v, v(self))))

\* the advective tendency of tracer k: the first line of the closure _rhs
TracerAdvection(self, k) ==
    IF self.file = "linear" THEN ENeg(_tracer_dynamics_terms(self, self._tracers[k].name))
    ELSE ENeg(tracer_conservation(self, self._tracers[k].name))

\* rhs(self) of a callable rhs, and whether the call raises
RhsCallFaults(rhs, self) ==
    \/ rhs = "fault"
    \/ rhs = "tracer_a" /\ ~HasTracer(self, "a")
RhsCallValue(rhs, self) == IF rhs = "phi" THEN phi(self) ELSE tracer(self, "a")

\* the closure _rhs of add_tracer, for the tracer at position k: whether it
\* raises, and the value it returns, built up line by line from
\* orhs = -tracer_dynamics(name)
TracerRhsFaults(self, k) ==
    \/ self._tracers[k].apply_damping /\ DampingFaults(self, Interior(self._tracers[k].state))
    \/ callable(self._tracers[k].rhs) /\ RhsCallFaults(self._tracers[k].rhs, self)
\* if kappa: orhs += kappa*self.del2(state)
WithDiffusion(self, tr, orhs) ==
    IF tr.kappa # Zero THEN EAdd(orhs, EScale(tr.kappa, del2(self, tr.state))) ELSE orhs
\* if apply_damping: orhs += -self.damping(state[1:-1, 1:-1])
WithDamping(self, tr, orhs) ==
    IF tr.apply_damping THEN EAdd(orhs, ENeg(damping(self, Interior(tr.state)))) ELSE orhs
\* orhs += rhs(self) if callable(rhs) else rhs
WithRhs(self, tr, orhs) ==
    IF callable(tr.rhs) THEN EAdd(orhs, RhsCallValue(tr.rhs, self))
    ELSE IF tr.rhs = "1" THEN Arr(self.nx, self.ny,
             [i \in 0..(self.nx - 1) |-> [j \in 0..(self.ny - 1) |-> RAdd(orhs.d[i][j], One)]])
    ELSE orhs
TracerRhs(self, k) ==
    WithRhs(self, self._tracers[k],
        WithDamping(self, self._tracers[k],
            WithDiffusion(self, self._tracers[k], TracerAdvection(self, k))))

(* ------------------------------------------------------------------ *)
(* The Adams-Bashforth generator (module timesteppers)                  *)
(* ------------------------------------------------------------------ *)
\* a fresh generator: no tendency evaluated yet
NewStepper(zero) == [n |-> 0, dx1 |-> zero, dx2 |-> zero, dead |-> FALSE]

\* the increment of one array from the tendency dx and the stored history:
\* Euler, then two-step, then three-step Adams-Bashforth
ABValue(st, dx, dt) ==
    IF st.n = 0 THEN EScale(dt, dx)
    ELSE IF st.n = 1
    THEN EScale(dt, ESub(EScale(<<3, 2>>, dx), EScale(Half, st.dx1)))
    ELSE EScale(dt, EAdd(ESub(EScale(<<23, 12>>, dx), EScale(<<4, 3>>, st.dx1)),
                         EScale(<<5, 12>>, st.dx2)))

\* the same for a state triple
ABValueT(st, dx, dt) ==
    [u |-> ABValue([st EXCEPT !.dx1 = @.u, !.dx2 = @.u], dx.u, dt),
     v |-> ABValue([st EXCEPT !.dx1 = @.v, !.dx2 = @.v], dx.v, dt),
     phi |-> ABValue([st EXCEPT !.dx1 = @.phi, !.dx2 = @.phi], dx.phi, dt)]

\* the generator after yielding: the history shifts by one
Advance(st, dx) == [n |-> IF st.n < 2 THEN st.n + 1 ELSE 2, dx1 |-> dx, dx2 |-> st.dx1,
                    dead |-> FALSE]

(* ------------------------------------------------------------------ *)
(* The state tendency                                                   *)
(* ------------------------------------------------------------------ *)
\* for fn in self._forcings[i:]: dstate += fn(self)
\* a tendency that leaves the forcings out
AccumulateForcings_none(self, dstate, i) == dstate

RECURSIVE AccumulateForcings(_, _, _)
AccumulateForcings(self, dstate, i) ==
    IF i > Len(self._forcings) THEN dstate
    ELSE AccumulateForcings(self, TAdd(dstate, ForcingValue(self._forcings[i], self)), i + 1)

\* the forcings that get called, in call order: up to the first that raises
ForcingCalls(self) ==
    LET bad == {i \in 1..Len(self._forcings) : ForcingFaults(self._forcings[i], self)}
        last == IF bad = {} THEN Len(self._forcings)
                ELSE CHOOSE i \in bad : \A k \in bad : i <= k
    IN  [i \in 1..last |-> self._forcings[i]]
AnyForcingFaults(self) ==
    \E i \in 1..Len(self._forcings) : ForcingFaults(self._forcings[i], self)

\* NonLinShallowWater.rhs: the dynamics, then every forcing added in order
NonLinShallowWater_rhs(self) ==
    AccumulateForcings(self, [u |-> u_rhs(self), v |-> v_rhs(self), phi |-> phi_rhs(self)], 1)

\* ShallowWater._rhs: the forcings summed in order, then dynamics + hook + sum
ShallowWater__rhs(self) ==
    LET dstate == AccumulateForcings(self, TZeros(self), 1)
    IN  TAdd(TAdd(_dynamics_terms(self), ShallowWater_rhs(self)), dstate)

\* the tendency function bound to self._stepper
StateRhs(self) ==
    IF self.file = "linear" THEN ShallowWater__rhs(self) ELSE NonLinShallowWater_rhs(self)
StateRhsFaults(self) == DynamicsFault(self) \/ AnyForcingFaults(self)

\* the callables the state tendency evaluates, in order
StateRhsCalls(self) ==
    IF self.file = "linear"
    THEN ForcingCalls(self) \o (IF AnyForcingFaults(self) THEN <<>> ELSE <<"dynamics">>)
    ELSE <<"dynamics">> \o (IF DynamicsFault(self) THEN <<>> ELSE ForcingCalls(self))

(* ------------------------------------------------------------------ *)
(* step()                                                               *)
(* ------------------------------------------------------------------ *)
\* the boundary operation on every tracer field
ApplyTracerBoundaryConditions(self) ==
    [self EXCEPT !._tracers = [k \in 1..Len(self._tracers) |->
        [self._tracers[k] EXCEPT !.state = _apply_boundary_conditions_to(self, @)]]]

\* the first lines of both step(): boundary conditions on the state, then
\* on every tracer field
ApplyAllBoundaryConditions(self) ==
    ApplyTracerBoundaryConditions(_apply_boundary_conditions(self))

\* self.state = newstate; self.t += dt; self.tc += 1
CommitState(self, newstate) ==
    [self EXCEPT !._u = SetInterior(@, newstate.u),
                 !._v = SetInterior(@, newstate.v),
                 !._phi = SetInterior(@, newstate.phi),
                 !.t = RAdd(@, self.dt),
                 !.tc = @ + 1]

\* field[1:-1, 1:-1] + next(stepper), for the tendency dx the generator evaluates
NewField(tr, dx, dt) == EAdd(Interior(tr.state), ABValue(tr.stepper, dx, dt))

\* nonlinear.py 187: the tracer's field is overwritten with the new interior
\* and its generator moves on
AdvanceInPlace(tr, dx, dt) ==
    [tr EXCEPT !.state = SetInterior(@, NewField(tr, dx, dt)),
               !.stepper = Advance(@, dx)]

\* nonlinear.py 186-187: each tracer field is advanced in place as soon as
\* its increment is known; returns the object and whether a call raised
RECURSIVE NonLin_tracer_loop(_, _)
NonLin_tracer_loop(self, k) ==
    IF k > Len(self._tracers) THEN [self |-> self, raised |-> FALSE]
    ELSE IF self._tracers[k].stepper.dead THEN [self |-> self, raised |-> TRUE]
    ELSE IF TracerRhsFaults(self, k)
    THEN [self |-> [self EXCEPT !._tracers[k].stepper.dead = TRUE], raised |-> TRUE]
    ELSE NonLin_tracer_loop(
             [self EXCEPT !._tracers[k] = AdvanceInPlace(@, TracerRhs(self, k), self.dt)],
             k + 1)

\* linear.py 193-195: every new interior is computed into newfields first
RECURSIVE Lin_tracer_loop(_, _, _)
Lin_tracer_loop(self, newfields, k) ==
    IF k > Len(self._tracers) THEN [self |-> self, newfields |-> newfields, raised |-> FALSE]
    ELSE IF self._tracers[k].stepper.dead
    THEN [self |-> self, newfields |-> newfields, raised |-> TRUE]
    ELSE IF TracerRhsFaults(self, k)
    THEN [self |-> [self EXCEPT !._tracers[k].stepper.dead = TRUE],
          newfields |-> newfields, raised |-> TRUE]
    ELSE Lin_tracer_loop(
             [self EXCEPT !._tracers[k].stepper = Advance(@, TracerRhs(self, k))],
             Append(newfields, NewField(self._tracers[k], TracerRhs(self, k), self.dt)),
             k + 1)

\* linear.py 197-198: the new interiors are written to the fields
CommitTracers(self, newfields) ==
    [self EXCEPT !._tracers = [k \in 1..Len(self._tracers) |->
        [self._tracers[k] EXCEPT !.state = SetInterior(@, newfields[k])]]]

\* the end of NonLinShallowWater.step: r is what the tracer loop left
NonLin_commit(r, newstate) ==
    IF r.raised THEN r ELSE [self |-> CommitState(r.self, newstate), raised |-> FALSE]

\* nonlinear.py 185-193, once the generator has evaluated the tendency dx:
\* newstate = self.state + next(self._stepper), the tracer loop, the commit
NonLin_advance(self, dx) ==
    NonLin_commit(NonLin_tracer_loop([self EXCEPT !._stepper = Advance(@, dx)], 1),
                  TAdd(state(self), ABValueT(self._stepper, dx, self.dt)))

\* NonLinShallowWater.step after the boundary conditions
NonLin_next(self) ==
    IF self._stepper.dead THEN [self |-> self, raised |-> TRUE]
    ELSE IF StateRhsFaults(self)
    THEN [self |-> [self EXCEPT !._stepper.dead = TRUE], raised |-> TRUE]
    ELSE NonLin_advance(self, NonLinShallowWater_rhs(self))

\* NonLinShallowWater.step
NonLinShallowWater_step(self) == NonLin_next(ApplyAllBoundaryConditions(self))

\* the end of ShallowWater.step: r is what the newfields loop left
Lin_commit(r, newstate) ==
    IF r.raised THEN [self |-> r.self, raised |-> TRUE]
    ELSE [self |-> CommitState(CommitTracers(r.self, r.newfields), newstate),
          raised |-> FALSE]

\* linear.py 192-203, once the generator has evaluated the tendency dx
Lin_advance(self, dx) ==
    Lin_commit(Lin_tracer_loop([self EXCEPT !._stepper = Advance(@, dx)], <<>>, 1),
               TAdd(state(self), ABValueT(self._stepper, dx, self.dt)))

\* ShallowWater.step after the boundary conditions
Lin_next(self) ==
    IF self._stepper.dead THEN [self |-> self, raised |-> TRUE]
    ELSE IF StateRhsFaults(self)
    THEN [self |-> [self EXCEPT !._stepper.dead = TRUE], raised |-> TRUE]
    ELSE Lin_advance(self, ShallowWater__rhs(self))

\* ShallowWater.step
ShallowWater_step(self) == Lin_next(ApplyAllBoundaryConditions(self))

step(self) ==
    IF self.file = "linear" THEN ShallowWater_step(self) ELSE NonLinShallowWater_step(self)

(* ------------------------------------------------------------------ *)
(* Construction and registration                                        *)
(* ------------------------------------------------------------------ *)
\* the classes: file, dynamics and boundary variant
Classes ==
    {[file |-> "linear", dynamics |-> d, bc |-> b] :
        d \in {"nonlinear", "linear"}, b \in {"periodic", "walled"}}
    \cup {[file |-> "nonlinear", dynamics |-> "nonlinear", bc |-> b] :
        b \in {"periodic", "walled"}}

\* __init__ of ShallowWater / LinearShallowWater / NonLinShallowWater on top of
\* ArakawaCGrid.__init__: no argument is validated
New(cls, nx, ny, f0, beta, dt) ==
    [file |-> cls.file, dynamics |-> cls.dynamics, bc |-> cls.bc,
     nx |-> nx, ny |-> ny, Lx |-> Rat(nx), Ly |-> Rat(ny),
     dx |-> RDiv(Rat(nx), Rat(nx)), dy |-> RDiv(Rat(ny), Rat(ny)),
     _u |-> Zeros(nx + 3, ny + 2), _v |-> Zeros(nx + 2, ny + 3), _phi |-> Zeros(nx + 2, ny + 2),
     f0 |-> f0, beta |-> beta,
     nu |-> One, nu_phi |-> One, r |-> One,
     sponge_ny |-> ny \div 7, sponge |-> sponge(ny \div 7),
     dt |-> dt, tc |-> 0, t |-> Zero,
     g |-> One, H |-> One,
     _stepper |-> NewStepper(
         [u |-> Zeros(nx + 1, ny), v |-> Zeros(nx, ny + 1), phi |-> Zeros(nx, ny)]),
     _forcings |-> <<>>, _tracers |-> <<>>]

\* add_forcing
add_forcing(self, fn) == [self EXCEPT !._forcings = Append(@, fn)]

\* a registration that leaves the new field blank
add_tracer_blank(self, name, initial_state, rhs, kappa, apply_damping) ==
    LET entry == [name |-> name, state |-> ZerosLike(self._phi),
                  stepper |-> NewStepper(Zeros(self.nx, self.ny)),
                  rhs |-> rhs, kappa |-> kappa, apply_damping |-> apply_damping]
    IN  IF HasTracer(self, name)
        THEN [self EXCEPT !._tracers[TracerIndex(self, name)] = entry]
        ELSE [self EXCEPT !._tracers = Append(@, entry)]

\* add_tracer: a padded field with the initial values inside, a fresh
\* generator, stored under name (a dict: an existing key keeps its place)
add_tracer(self, name, initial_state, rhs, kappa, apply_damping) ==
    LET st == SetInterior(ZerosLike(self._phi), initial_state)
        entry == [name |-> name, state |-> st, stepper |-> NewStepper(Zeros(self.nx, self.ny)),
                  rhs |-> rhs, kappa |-> kappa, apply_damping |-> apply_damping]
    IN  IF HasTracer(self, name)
        THEN [self EXCEPT !._tracers[TracerIndex(self, name)] = entry]
        ELSE [self EXCEPT !._tracers = Append(@, entry)]

(* ------------------------------------------------------------------ *)
(* Inputs                                                               *)
(* ------------------------------------------------------------------ *)
\* an interior array with the value c at cell (i0, j0) and zero elsewhere
Blob(w, h, i0, j0, c) == Arr(w, h,
    [i \in 0..(w - 1) |-> [j \in 0..(h - 1) |-> IF i = i0 /\ j = j0 THEN c ELSE Zero]])

\* initial conditions a caller writes into u, v, phi after construction
\*   "hump": a height anomaly in mid-channel    "edge": one in the corner cell
\*   "jet": an along-x velocity in the first column of the bottom row
Patterns == {"zero", "hump", "edge", "jet"}
InitialState(self, pat) ==
    IF pat = "zero" THEN TZeros(self)
    ELSE IF pat = "hump"
    THEN [TZeros(self) EXCEPT !.phi = Blob(self.nx, self.ny, 0, 3 % self.ny, Rat(2))]
    ELSE IF pat = "edge"
    THEN [TZeros(self) EXCEPT !.phi = Blob(self.nx, self.ny, 0, 0, Rat(2))]
    ELSE [TZeros(self) EXCEPT !.u = Blob(self.nx + 1, self.ny, 0, 0, Rat(4))]

(* ------------------------------------------------------------------ *)
(* The state machine                                                    *)
(* ------------------------------------------------------------------ *)
VARIABLES
    sw,           \* the model object
    constructed,  \* whether the constructor has returned an object
    initial,      \* the initial condition the caller wrote
    call,         \* the last call: [op, raised, name, value]
    calls,        \* the callables the last step() evaluated for the state tendency
    nreg          \* the number of add_forcing and add_tracer calls made

vars == <<sw, constructed, initial, call, calls, nreg>>

NoValue == Zeros(0, 0)
Call(op, raised, name, value) == [op |-> op, raised |-> raised, name |-> name, value |-> value]

Init ==
    /\ sw = [file |-> "none"]
    /\ constructed = FALSE
    /\ initial = "zero"
    /\ call = Call("none", FALSE, "", NoValue)
    /\ calls = <<>>
    /\ nreg = 0

\* the object a constructor call returns, with the caller's initial condition
\* written into the interiors of u, v and phi
Constructed(cls, nx, ny, f0, beta, dt, pat) ==
    LET o == New(cls, nx, ny, f0, beta, dt)
        st == InitialState(o, pat)
    IN  [o EXCEPT !._u = SetInterior(@, st.u), !._v = SetInterior(@, st.v),
                  !._phi = SetInterior(@, st.phi)]

\* constructor calls: every class on the regular grid (nx = 2, ny = 7, unit
\* time step, no rotation), and one variation at a time: a y-extent below 7
\* rows, a one-column grid, a zero and a negative time step, rotation, and
\* initial conditions that reach the corner cells
Regular == [nx |-> 2, ny |-> 7, f0 |-> Zero, beta |-> Zero, dt |-> One]
Config(cls, args, pat) == [cls |-> cls, args |-> args, pat |-> pat]
NonLinPeriodic == [file |-> "nonlinear", dynamics |-> "nonlinear", bc |-> "periodic"]
NonLinWalled == [file |-> "nonlinear", dynamics |-> "nonlinear", bc |-> "walled"]
LinPeriodic == [file |-> "linear", dynamics |-> "linear", bc |-> "periodic"]
LinWalled == [file |-> "linear", dynamics |-> "linear", bc |-> "walled"]
Configs ==
    {Config(cls, Regular, pat) : cls \in Classes, pat \in {"zero", "hump"}}
    \cup {Config(cls, [Regular EXCEPT !.ny = 3], "hump") : cls \in {NonLinWalled, LinPeriodic}}
    \cup {Config(cls, [Regular EXCEPT !.nx = 1], "hump") : cls \in {NonLinPeriodic, LinPeriodic}}
    \cup {Config(cls, Regular, "edge") : cls \in {NonLinPeriodic, NonLinWalled}}
    \cup {Config(NonLinPeriodic, [Regular EXCEPT !.nx = 1], "jet"),
          Config(NonLinPeriodic, [Regular EXCEPT !.dt = Zero], "hump"),
          Config(LinWalled, [Regular EXCEPT !.dt = Rat(-1)], "hump"),
          Config(NonLinWalled, [Regular EXCEPT !.f0 = One, !.beta = Rat(2)], "zero"),
          Config(LinPeriodic, [Regular EXCEPT !.f0 = One, !.beta = Rat(2)], "hump")}

Construct ==
    /\ ~constructed
    /\ \E c \in Configs :
          /\ sw' = Constructed(c.cls, c.args.nx, c.args.ny, c.args.f0, c.args.beta,
                               c.args.dt, c.pat)
          /\ initial' = c.pat
    /\ constructed' = TRUE
    /\ call' = Call("__init__", FALSE, "", NoValue)
    /\ UNCHANGED <<calls, nreg>>

Step ==
    /\ constructed
    /\ sw.tc < MaxSteps
    /\ \E r \in {step(sw)} :
          /\ sw' = r.self
          /\ call' = Call("step", r.raised, "", NoValue)
    /\ calls' = StateRhsCalls(ApplyAllBoundaryConditions(sw))
    /\ UNCHANGED <<constructed, initial, nreg>>

AddForcing ==
    /\ constructed
    /\ nreg < MaxRegistrations
    /\ \E fn \in ForcingKinds :
          /\ sw' = add_forcing(sw, fn)
          /\ call' = Call("add_forcing", FALSE, fn, NoValue)
    /\ nreg' = nreg + 1
    /\ UNCHANGED <<constructed, initial, calls>>

\* the add_tracer calls a caller makes: name, initial interior values (a
\* single nonzero cell), rhs, kappa, apply_damping
TracerArgs ==
    {[name |-> "a", i0 |-> 0, c |-> Rat(3), rhs |-> "0", kappa |-> Zero, apply_damping |-> TRUE],
     [name |-> "a", i0 |-> 1, c |-> Rat(5), rhs |-> "1", kappa |-> One, apply_damping |-> FALSE],
     [name |-> "b", i0 |-> 0, c |-> Rat(4), rhs |-> "tracer_a", kappa |-> Zero, apply_damping |-> FALSE]}

AddTracer ==
    /\ constructed
    /\ nreg < MaxRegistrations
    /\ \E a \in TracerArgs :
          LET init == Blob(sw.nx, sw.ny, IF a.i0 < sw.nx THEN a.i0 ELSE 0, 3 % sw.ny, a.c)
          IN  /\ sw' = add_tracer(sw, a.name, init, a.rhs, a.kappa, a.apply_damping)
              /\ call' = Call("add_tracer", FALSE, a.name, init)
    /\ nreg' = nreg + 1
    /\ UNCHANGED <<constructed, initial, calls>>

\* tracer(name), called right after a registration; a name that is not
\* registered raises KeyError
ReadTracer ==
    /\ constructed
    /\ call.op = "add_tracer"
    /\ \E name \in {"a", "b"} :
          call' = IF HasTracer(sw, name)
                  THEN Call("tracer", FALSE, name, Eval(tracer(sw, name)))
                  ELSE Call("tracer", TRUE, name, NoValue)
    /\ UNCHANGED <<sw, constructed, initial, calls, nreg>>

Next == Construct \/ Step \/ AddForcing \/ AddTracer \/ ReadTracer

Spec == Init /\ [][Next]_vars

\* the model with forcings only, and with tracers only
NextForcing == Construct \/ Step \/ AddForcing
SpecForcing == Init /\ [][NextForcing]_vars
NextTracer == Construct \/ Step \/ AddTracer \/ ReadTracer
SpecTracer == Init /\ [][NextTracer]_vars

(* ------------------------------------------------------------------ *)
(* Properties                                                           *)
(* ------------------------------------------------------------------ *)
\* the last call was a step() that returned
StepCompleted == call'.op = "step" /\ ~call'.raised
\* the last call was a step() that raised
StepRaised == call'.op = "step" /\ call'.raised

\* C1: within one step() every increment, of the state and of each tracer,
\* is computed from the one snapshot left by the boundary conditions at the
\* start of the step: after a completed step the state and every tracer
\* interior equal the snapshot's value plus the integrator's increment for the
\* tendency evaluated on that snapshot.
C1_SingleSnapshot ==
    [][StepCompleted =>
        \A snap \in {ApplyAllBoundaryConditions(sw)} :
            /\ TEval(state(sw')) =
                 TEval(TAdd(state(snap), ABValueT(snap._stepper, StateRhs(snap), snap.dt)))
            /\ \A k \in 1..Len(snap._tracers) :
                 Eval(Interior(sw'._tracers[k].state)) =
                 Eval(NewField(snap._tracers[k], TracerRhs(snap, k), snap.dt))]_vars

\* the fields, the tracer fields and the clock of an object
Owned(self) ==
    [u |-> Eval(self._u), v |-> Eval(self._v), phi |-> Eval(self._phi),
     tracers |-> [k \in 1..Len(self._tracers) |-> Eval(self._tracers[k].state)],
     t |-> self.t, tc |-> self.tc]

\* C2: step() is atomic: a completed step advances the clock by one step and
\* dt, and a step in which a tendency evaluation raises leaves the padded
\* state fields, every tracer field, t and tc exactly as they were.
C2_StepAtomic ==
    [][/\ StepCompleted => (sw'.tc = sw.tc + 1 /\ sw'.t = RAdd(sw.t, sw.dt))
       /\ StepRaised => Owned(sw') = Owned(sw)]_vars

\* C3: add_tracer under a name already registered reports an error and
\* leaves the registered tracer, its field and its integrator, unchanged.
C3_DuplicateTracerRejected ==
    [][(call'.op = "add_tracer" /\ HasTracer(sw, call'.name)) =>
        (call'.raised /\ sw'._tracers = sw._tracers)]_vars

\* a configuration the constructor is required to accept
ValidConfiguration(self) ==
    /\ self.nx > 0 /\ self.ny > 0
    /\ self.ny \div 7 # 0
    /\ RLess(Zero, self.dt)

\* C4: a model with a non-positive grid dimension, with ny // 7 = 0 or with
\* a non-positive time step is never constructed, so no object with such a
\* configuration exists and none reaches step().
C4_BadConfigurationRejected == constructed => ValidConfiguration(sw)

\* C5: only step() changes the clock; a completed step() adds one to tc and
\* dt to t; t and tc never decrease; tc counts the completed steps.
C5_ClockMonotone ==
    [][constructed =>
        /\ call'.op # "step" => (sw'.t = sw.t /\ sw'.tc = sw.tc)
        /\ StepCompleted => (sw'.tc = sw.tc + 1 /\ sw'.t = RAdd(sw.t, sw.dt))
        /\ sw'.tc >= sw.tc
        /\ ~RLess(sw'.t, sw.t)]_vars

\* the tendency without forcings: the dynamics, plus the rhs hook in linear.py
UnforcedTendency(self) ==
    IF self.file = "linear" THEN TAdd(_dynamics_terms(self), ShallowWater_rhs(self))
    ELSE [u |-> u_rhs(self), v |-> v_rhs(self), phi |-> phi_rhs(self)]

\* the sum of the values of the first n registered forcings
RECURSIVE SumOfForcings(_, _)
SumOfForcings(self, n) ==
    IF n = 0 THEN TZeros(self)
    ELSE TAdd(SumOfForcings(self, n - 1), ForcingValue(self._forcings[n], self))

\* C6: the forcing registry is append-only and ordered (a call other than
\* add_forcing leaves it unchanged, add_forcing appends one entry), and in a
\* completed step() every registered forcing is called once, in registration
\* order, and the tendency handed to the state integrator is the unforced
\* tendency plus the sum of all their values.
C6_ForcingsAppendedAndSummed ==
    [][constructed =>
        /\ IF call'.op = "add_forcing"
           THEN sw'._forcings = Append(sw._forcings, call'.name)
           ELSE sw'._forcings = sw._forcings
        /\ StepCompleted =>
             /\ SelectSeq(calls', LAMBDA c : c # "dynamics") = sw._forcings
             /\ \A snap \in {ApplyAllBoundaryConditions(sw)} :
                  TEval(sw'._stepper.dx1) =
                  TEval(TAdd(UnforcedTendency(snap),
                             SumOfForcings(snap, Len(snap._forcings))))]_vars

\* a second step has completed with two different forcings registered
C6_Witness ==
    /\ call.op = "step" /\ ~call.raised /\ sw.tc = 2
    /\ Len(sw._forcings) = 2 /\ sw._forcings[1] # sw._forcings[2]
    /\ Len(calls) = 3

\* C7: add_tracer(name, v) immediately followed by tracer(name) returns the
\* values v, of the interior shape (nx, ny) with no padding, whatever rhs,
\* kappa and apply_damping are (also when the name was registered before).
C7_TracerReadsBackInitial ==
    [][(call.op = "add_tracer" /\ call'.op = "tracer" /\ call'.name = call.name) =>
        /\ ~call'.raised
        /\ Eval(call'.value) = Eval(call.value)
        /\ call'.value.w = sw.nx /\ call'.value.h = sw.ny]_vars

\* tracer('a') was read right after add_tracer('a', v, rhs=1, kappa=1) on a
\* model that has stepped
C7_Witness ==
    /\ call.op = "tracer" /\ ~call.raised /\ call.name = "a"
    /\ Len(sw._tracers) = 1 /\ sw._tracers[1].kappa = One
    /\ sw.tc = 1 /\ ~IsZeroArr(call.value)

\* C8: an object constructed with zero fields and f0 = beta = 0, with no
\* forcing registered, has u, v and phi (padding included) exactly zero
\* after any number of step() calls, in every class.
C8_ZeroStaysZero ==
    (constructed /\ initial = "zero" /\ sw._forcings = <<>>
        /\ sw.f0 = Zero /\ sw.beta = Zero) => IsZeroState(sw)

\* the last step allowed has completed on such an object
C8_Witness ==
    /\ constructed /\ initial = "zero" /\ sw._forcings = <<>>
    /\ sw.f0 = Zero /\ sw.beta = Zero
    /\ call.op = "step" /\ ~call.raised /\ sw.tc = MaxSteps
    /\ sw.dynamics = "nonlinear"

\* the rows of a padded field that are not corner rows
InnerRows(field) == 1..(field.h - 2)

\* C9 as stated: in both variants the tracer boundary operation leaves
\* field[0, :] = field[1, :] and field[-1, :] = field[-2, :], and step()
\* applies it to every tracer field.
C9_TracerMirrorInBothVariants ==
    [][(constructed /\ call'.op = "step") =>
        \A k \in 1..Len(sw._tracers) :
          \A b \in {Eval(_apply_boundary_conditions_to(sw, sw._tracers[k].state))} :
            LET f == sw._tracers[k].state
                W == f.w - 1
            IN  \A y \in 0..(f.h - 1) :
                    /\ b.d[0][y] = b.d[1][y] /\ b.d[W][y] = b.d[W - 1][y]
                    /\ sw'._tracers[k].state.d[0][y] = b.d[0][y]
                    /\ sw'._tracers[k].state.d[W][y] = b.d[W][y]]_vars

\* C9, amended: in the classes of nonlinear.py the tracer boundary operation
\* follows the variant: walled mirrors (column 0 copies column 1, the last
\* column copies the one before it), periodic wraps (column 0 copies the
\* last interior column, the last column copies the first interior column),
\* on every row that is not a corner row; the boundary columns are copies of
\* interior values, never set to zero, and step() leaves exactly these
\* values in the padding of every tracer field.
C9_TracerBoundaryFollowsVariant ==
    [][(constructed /\ call'.op = "step" /\ sw.file = "nonlinear") =>
        \A k \in 1..Len(sw._tracers) :
          \A b \in {Eval(_apply_boundary_conditions_to(sw, sw._tracers[k].state))} :
            LET f == sw._tracers[k].state
                W == f.w - 1
            IN  \A y \in InnerRows(f) :
                    /\ IF sw.bc = "walled"
                       THEN /\ b.d[0][y] = b.d[1][y] /\ b.d[W][y] = b.d[W - 1][y]
                            /\ b.d[0][y] = f.d[1][y] /\ b.d[W][y] = f.d[W - 1][y]
                       ELSE /\ b.d[0][y] = b.d[W - 1][y] /\ b.d[W][y] = b.d[1][y]
                            /\ b.d[0][y] = f.d[W - 1][y] /\ b.d[W][y] = f.d[1][y]
                    /\ sw'._tracers[k].state.d[0][y] = b.d[0][y]
                    /\ sw'._tracers[k].state.d[W][y] = b.d[W][y]]_vars

\* a periodic model of nonlinear.py has stepped with a tracer whose first
\* interior column was nonzero: the value sits in the last padding column
C9_Witness ==
    /\ call.op = "step" /\ sw.file = "nonlinear" /\ sw.bc = "periodic" /\ sw.nx = 2
    /\ \E k \in 1..Len(sw._tracers) :
         LET f == sw._tracers[k].state
         IN  \E y \in InnerRows(f) : f.d[f.w - 1][y] # Zero /\ f.d[0][y] = Zero

\* C10: the advective tendency of every tracer is
\* -(diffx(q_at_u * u) + diffy(q_at_v * v)), and the linear-file and the
\* nonlinear-file expressions give the same array for the same fields.
C10_TracerAdvectionIsFluxDivergence ==
    constructed =>
        \A k \in 1..Len(sw._tracers) :
            LET q == sw._tracers[k].state
                q_at_u == CropY(x_average(q))
                q_at_v == CropX(y_average(q))
            IN  /\ Eval(TracerAdvection(sw, k)) =
                     Eval(ENeg(EAdd(diffx(sw, EMul(q_at_u, u(sw))),
                                    diffy(sw, EMul(q_at_v, v(sw))))))
                /\ Eval(ENeg(tracer_conservation(sw, sw._tracers[k].name))) =
                     Eval(ENeg(_tracer_dynamics_terms(sw, sw._tracers[k].name)))

\* every row of a padded field, corner rows included
AllRows(field) == 0..(field.h - 1)

\* field[i, :] == field[k, :] on the given rows
ColumnsEqual(field, i, k, rows) ==
    \A y \in rows : field.d[Ix(i, field.w)][y] = field.d[Ix(k, field.w)][y]

\* C11: after the periodic state boundary operation that step() applies,
\* the wrapped boundary columns equal their interior source columns:
\* _u[0] = _u[-3], _u[1] = _u[-2], _u[-1] = _u[2], and for _v and _phi
\* column 0 equals column -2 and column -1 equals column 1.  Stated on the
\* rows whose cells the operation of nonlinear.py assigns last itself; the
\* four corner cells are set afterwards by the grid's corner fix.
C11_PeriodicWrapExact ==
    [][(constructed /\ call'.op = "step" /\ sw.file = "nonlinear" /\ sw.bc = "periodic") =>
        \A s \in {_apply_boundary_conditions(sw)} :
            /\ ColumnsEqual(s._u, 0, -3, InnerRows(s._u))
            /\ ColumnsEqual(s._u, 1, -2, InnerRows(s._u))
            /\ ColumnsEqual(s._u, -1, 2, InnerRows(s._u))
            /\ ColumnsEqual(s._v, 0, -2, InnerRows(s._v))
            /\ ColumnsEqual(s._v, -1, 1, InnerRows(s._v))
            /\ ColumnsEqual(s._phi, 0, -2, InnerRows(s._phi))
            /\ ColumnsEqual(s._phi, -1, 1, InnerRows(s._phi))]_vars

\* field[i, :] == 0 on the given rows
ColumnIsZero(field, i, rows) == \A y \in rows : field.d[Ix(i, field.w)][y] = Zero

\* C12: after the walled state boundary operation that step() applies, _u
\* is exactly zero in columns 0, 1, -2 and -1 on every row, and _v and _phi
\* have column 0 equal to column 1 and column -1 equal to column -2 on every
\* row, the y-boundary mirror and the corner fix included; off the corner
\* rows the boundary columns of _v and _phi are the interior values from
\* before the operation, and step() leaves the outermost columns as the
\* operation set them.
C12_WalledNoFlowAndMirror ==
    [][(constructed /\ call'.op = "step" /\ sw.file = "nonlinear" /\ sw.bc = "walled") =>
        \A s \in {_apply_boundary_conditions(sw)} :
            /\ \A i \in {0, 1, -2, -1} : ColumnIsZero(s._u, i, AllRows(s._u))
            /\ ColumnsEqual(s._v, 0, 1, AllRows(s._v))
            /\ ColumnsEqual(s._v, -1, -2, AllRows(s._v))
            /\ ColumnsEqual(s._phi, 0, 1, AllRows(s._phi))
            /\ ColumnsEqual(s._phi, -1, -2, AllRows(s._phi))
            /\ \A y \in InnerRows(s._v) :
                  /\ s._v.d[0][y] = sw._v.d[1][y]
                  /\ s._v.d[s._v.w - 1][y] = sw._v.d[s._v.w - 2][y]
            /\ \A y \in InnerRows(s._phi) :
                  /\ s._phi.d[0][y] = sw._phi.d[1][y]
                  /\ s._phi.d[s._phi.w - 1][y] = sw._phi.d[s._phi.w - 2][y]
            /\ \A i \in {0, -1} :
                  /\ ColumnIsZero(sw'._u, i, AllRows(s._u))
                  /\ \A y \in AllRows(s._v) :
                        sw'._v.d[Ix(i, s._v.w)][y] = s._v.d[Ix(i, s._v.w)][y]
                  /\ \A y \in AllRows(s._phi) :
                        sw'._phi.d[Ix(i, s._phi.w)][y] = s._phi.d[Ix(i, s._phi.w)][y]]_vars

\* a walled model of nonlinear.py started from the corner anomaly has taken
\* two steps: the first left a flow in the column next to the wall, which the
\* operation of the second set to zero, and the anomaly sits mirrored in the
\* padding column of the height field
C12_Witness ==
    /\ constructed /\ sw.file = "nonlinear" /\ sw.bc = "walled" /\ initial = "edge"
    /\ call.op = "step" /\ ~call.raised /\ sw.tc = 2
    /\ sw._stepper.dx2.u.d[0][0] # Zero
    /\ sw._u.d[0][1] = Zero
    /\ sw._phi.d[0][1] # Zero /\ sw._phi.d[0][1] # sw._phi.d[2][1]

====
